---- MODULE Spec2Model ----
(***************************************************************************)
(* Model of the Blackijecky dealer server (src/dealer_server.py): the      *)
(* listener, the per-connection session handler, the round engine, the     *)
(* global statistics guarded by stats_lock, and the discovery beacon; and  *)
(* of the player client (src/player_client.py): its session, its rounds    *)
(* and safe_recv.                                                          *)
(***************************************************************************)
EXTENDS Integers, Sequences, FiniteSets, TLC

\* ---------------------------------------------------------------- bounds
\* Largest round count a Request carries in the model (the wire field is a byte).
MaxRounds == 2
\* The shoe of Spec deals the first ShoeSize cards of RankOrder.
ShoeSize == 2
\* Session-handler threads of SpecStats and the calls each makes.
NumThreads == 2
MaxCalls == 1
\* Offers the beacon of SpecMulti broadcasts before the model stops counting.
MaxOffers == 1
\* Totals the outcome rule is applied to in SpecOutcome: 0..MaxTotal.
MaxTotal == 31
\* sendto calls of the beacon that SpecBeacon follows.
MaxTries == 6
\* Cards of the hands SpecValues totals.
MaxHand == 2
\* Cards a hand of the client of SpecClient grows to before the model stops
\* offering it more.
MaxCards == 4

\* ------------------------------------------------------- program constants
MAGIC_COOKIE == "abcddcba"
BAD_COOKIE == "deadbeef"
OFFER_TYPE == 2
REQUEST_TYPE == 3
PAYLOAD_TYPE == 4
RequestLen == 38
DecisionLen == 10
MaxRank == 13
MaxSuit == 3

\* A permutation of the ranks 1..13; the model's shoes are prefixes of it, the
\* n-th card in suit n mod 4.
RankOrder == <<1, 6, 10, 5, 13, 2, 9, 3, 11, 7, 4, 12, 8>>
ShoeOf(size) == {<<RankOrder[n], n % (MaxSuit + 1)>> : n \in 1..size}
Shoe == ShoeOf(ShoeSize)
\* The one-card shoe of the two-session specification: a six, so that the player
\* has decisions to make and the dealer a card to draw.
MultiShoe == {<<6, 2>>}

NoCard == <<0, 0>>

\* ------------------------------------------------------------- the deck
\* An ace counted low: `if rank == 1: value = 1`.
CardValueAceLow(rank) ==
    IF rank = 1 THEN 1
    ELSE IF rank >= 11 THEN 10
    ELSE rank

\* deal_card: the value of a rank.
CardValue(rank) ==
    IF rank = 1 THEN 11
    ELSE IF rank >= 11 THEN 10
    ELSE rank

\* deal_card: the (rank, suit, value) triples a draw from `shoe` can return.
DealCard(shoe) == {<<c[1], c[2], CardValue(c[1])>> : c \in shoe}

\* ------------------------------------------------------------ the codec
\* send_payload called with the outcome and the rank in each other's place.
PayloadArgsSwapped(res, rank, suit) ==
    [cookie |-> MAGIC_COOKIE, type |-> PAYLOAD_TYPE, result |-> rank % 256,
     rank_h |-> (res \div 256) % 256, rank_l |-> res % 256, suit |-> suit % 256]

\* send_payload: the 9-byte Round-Payload packet, field by field.
Payload(res, rank, suit) ==
    [cookie |-> MAGIC_COOKIE, type |-> PAYLOAD_TYPE, result |-> res % 256,
     rank_h |-> (rank \div 256) % 256, rank_l |-> rank % 256, suit |-> suit % 256]

\* The rank a receiver reads from a Round-Payload packet (player_client.py safe_recv).
RankOf(pkt) == pkt.rank_h * 256 + pkt.rank_l

\* The bytes a recv returned: `len` bytes, of which the fields below are those
\* the handlers unpack (a Request's rounds, a Decision's 5 action bytes).
Bytes(len, cookie, type, rnds, action) ==
    [len |-> len, cookie |-> cookie, type |-> type, rounds |-> rnds, action |-> action]
NoData == Bytes(0, "", 0, 0, <<>>)

Hittt == <<"H", "i", "t", "t", "t">>
Stand == <<"S", "t", "a", "n", "d">>
HitPadded == <<"H", "i", "t", " ", " ">>
NotUtf8 == <<"0xff", "i", "t", "t", "t">>

\* What the first recv of a connection can return.
RequestInputsTo(maxRounds) ==
    {NoData, Bytes(RequestLen - 1, MAGIC_COOKIE, REQUEST_TYPE, 1, <<>>)}
    \cup {Bytes(RequestLen, c, t, n, <<>>) :
            c \in {MAGIC_COOKIE, BAD_COOKIE}, t \in {REQUEST_TYPE, PAYLOAD_TYPE},
            n \in 0..maxRounds}
RequestInputs == RequestInputsTo(MaxRounds)
\* The two-session specification plays at most one round per session.
MultiRequestInputs == RequestInputsTo(1)

\* What a recv in the player phase can return.
DecisionInputs ==
    {NoData, Bytes(DecisionLen - 1, MAGIC_COOKIE, PAYLOAD_TYPE, 0, Stand),
     Bytes(DecisionLen, MAGIC_COOKIE, PAYLOAD_TYPE, 0, NotUtf8)}
    \cup {Bytes(DecisionLen, c, PAYLOAD_TYPE, 0, a) :
            c \in {MAGIC_COOKIE, BAD_COOKIE}, a \in {Hittt, Stand, HitPadded}}

\* bytes.decode(): fails on a byte that is not UTF-8.
Decodable(a) == \A n \in 1..Len(a) : a[n] # "0xff"

RECURSIVE LStrip(_, _)
LStrip(a, chars) ==
    IF a # <<>> /\ Head(a) \in chars THEN LStrip(Tail(a), chars) ELSE a
RECURSIVE RStrip(_, _)
RStrip(a, chars) ==
    IF a # <<>> /\ a[Len(a)] \in chars THEN RStrip(SubSeq(a, 1, Len(a) - 1), chars) ELSE a
\* str.strip(chars)
Strip(a, chars) == RStrip(LStrip(a, chars), chars)
\* play_round: decision_bytes.decode().strip('\x00').strip()
DecodeDecision(a) == Strip(Strip(a, {"0x00"}), {" "})

\* ------------------------------------------------------------ the state
VARIABLES
    pc,           \* each session handler's position
    conn,         \* each connection: "none", "open", "closed"
    data,         \* handle_client: the bytes its recv returned
    r_data,       \* play_round: the bytes its last recv returned
    err_logged,   \* handle_client: the except clause has logged a failure
    rounds,       \* handle_client: rounds
    r_idx,        \* handle_client: r_idx
    p_c1, p_c2, d_c1, d_c2,   \* play_round: the four cards of the initial deal
    player_sum, dealer_sum,   \* play_round: the totals
    n_initial,    \* play_round: cards of the initial deal sent so far
    card,         \* play_round: the card drawn last (r, s)
    result,       \* the outcome play_round computed; update_global_stats's argument
    sent,         \* the packets sent on the connection in the current round
    results,      \* the outcomes play_round has returned to handle_client
    io_failed,    \* the r_idx of the round whose Decision read failed, or -1
    total_wins, total_losses, total_ties,
    stats_lock,   \* 0 when free, else the thread holding it
    tmp,          \* update_global_stats: the counter value a thread has loaded
    printed,      \* the Total Games values printed so far
    accepted,     \* connections the listener has accepted
    beacon,       \* the beacon thread's position
    offers,       \* offers broadcast
    pt, dt, out,  \* the outcome rule applied to a pair of totals
    clock,        \* beacon: the seconds the beacon thread has slept
    tries,        \* beacon: the clock reading at each sendto call
    hand,         \* the ranks of a hand both programs total
    srv_total,    \* the total the server accumulates for `hand`
    cli_total,    \* the total the client computes for `hand`
    cpc,          \* client: its position
    link,         \* client: its connection, "up" or "down"
    num_rounds,   \* client start_client: num_rounds
    c_idx,        \* client start_client: r_idx
    c_i,          \* client play_round: the index of the Step A loop
    player_hand, dealer_hand,   \* client play_round: the hands
    c_got,        \* client play_round: (res, rank, suit) of the last safe_recv
    c_results,    \* client: the results play_round has returned
    to_server,    \* the messages in flight from the client to the server
    to_client     \* the messages in flight from the server to the client

server_vars == <<pc, conn, data, r_data, err_logged, rounds, r_idx, p_c1, p_c2, d_c1, d_c2, player_sum,
          dealer_sum, n_initial, card, result, sent, results, io_failed,
          total_wins, total_losses, total_ties, stats_lock, tmp, printed,
          accepted, beacon, offers, pt, dt, out>>

round_vars == <<p_c1, p_c2, d_c1, d_c2, player_sum, dealer_sum, n_initial, card>>
stats_vars == <<total_wins, total_losses, total_ties, stats_lock, tmp, printed>>
env_vars == <<accepted, beacon, offers, pt, dt, out>>
time_vars == <<clock, tries>>
value_vars == <<hand, srv_total, cli_total>>
client_vars == <<cpc, link, num_rounds, c_idx, c_i, player_hand, dealer_hand, c_got, c_results>>
chan_vars == <<to_server, to_client>>
\* What the server's threads do not touch.
ext_vars == <<time_vars, value_vars, client_vars, chan_vars>>
vars == <<server_vars, ext_vars>>

\* __init__ and run up to its first accept, for the connections S the listener
\* will accept: the counters are zero, the lock is free, the beacon thread runs.
InitOver(S) ==
    /\ pc = [s \in S |-> "idle"]
    /\ conn = [s \in S |-> "none"]
    /\ data = [s \in S |-> NoData]
    /\ r_data = [s \in S |-> NoData]
    /\ err_logged = [s \in S |-> FALSE]
    /\ rounds = [s \in S |-> 0]
    /\ r_idx = [s \in S |-> 0]
    /\ p_c1 = [s \in S |-> NoCard]
    /\ p_c2 = [s \in S |-> NoCard]
    /\ d_c1 = [s \in S |-> NoCard]
    /\ d_c2 = [s \in S |-> NoCard]
    /\ player_sum = [s \in S |-> 0]
    /\ dealer_sum = [s \in S |-> 0]
    /\ n_initial = [s \in S |-> 0]
    /\ card = [s \in S |-> NoCard]
    /\ result = [s \in S |-> 0]
    /\ sent = [s \in S |-> <<>>]
    /\ results = [s \in S |-> <<>>]
    /\ io_failed = [s \in S |-> -1]
    /\ total_wins = 0
    /\ total_losses = 0
    /\ total_ties = 0
    /\ stats_lock = 0
    /\ tmp = [s \in S |-> 0]
    /\ printed = <<>>
    /\ accepted = 0
    /\ beacon = "send"
    /\ offers = 0

NoRecv == <<0, 0, 0>>

\* player_client.py before start_client has found a server; the beacon's clock
\* at zero; no hand being totalled.
InitExt ==
    /\ clock = 0
    /\ tries = <<>>
    /\ hand = <<>>
    /\ srv_total = 0
    /\ cli_total = 0
    /\ cpc = "c_idle"
    /\ link = "up"
    /\ num_rounds = 0
    /\ c_idx = 0
    /\ c_i = 0
    /\ player_hand = <<>>
    /\ dealer_hand = <<>>
    /\ c_got = NoRecv
    /\ c_results = <<>>
    /\ to_server = <<>>
    /\ to_client = <<>>

\* ---------------------------------------------------------- the listener
\* run: accept a connection and start a handler thread for it.
Accept(s) ==
    /\ pc[s] = "idle"
    /\ pc' = [pc EXCEPT ![s] = "recv_request"]
    /\ conn' = [conn EXCEPT ![s] = "open"]
    /\ accepted' = accepted + 1
    /\ UNCHANGED <<data, r_data, err_logged, rounds, r_idx, round_vars, result, sent, results, io_failed,
                   stats_vars, beacon, offers, pt, dt, out>>

\* ------------------------------------------------------ the session handler
\* An exception raised inside handle_client's try block: control goes to the
\* except clause.
Raise(s) == pc' = [pc EXCEPT ![s] = "except"]

\* handle_client: `if not data or len(data) < 38: return`
RequestShort(d) == d.len = 0 \/ d.len < RequestLen

\* The check written with `and`: a Request is rejected only when both are wrong.
RequestRejectedAnd(d) == d.cookie # MAGIC_COOKIE /\ d.type # REQUEST_TYPE

\* handle_client: `if cookie != MAGIC_COOKIE or msg_type != REQUEST_TYPE: return`
RequestRejected(d) == d.cookie # MAGIC_COOKIE \/ d.type # REQUEST_TYPE

\* handle_client, the first read and its checks.
RecvRequest(s, inputs) ==
    /\ pc[s] = "recv_request"
    /\ \/ /\ Raise(s)
          /\ UNCHANGED <<data, rounds>>
       \/ \E d \in inputs :
            /\ data' = [data EXCEPT ![s] = d]
            /\ IF RequestShort(d)
               THEN /\ pc' = [pc EXCEPT ![s] = "finally"]
                    /\ UNCHANGED rounds
               ELSE IF RequestRejected(d)
               THEN /\ pc' = [pc EXCEPT ![s] = "finally"]
                    /\ UNCHANGED rounds
               ELSE /\ pc' = [pc EXCEPT ![s] = "loop"]
                    /\ rounds' = [rounds EXCEPT ![s] = d.rounds]
    /\ UNCHANGED <<conn, r_data, err_logged, r_idx, round_vars, result, sent, results,
                   io_failed, stats_vars, env_vars>>

\* The loop running one round too many: range(rounds + 1).
LoopHeadOffByOne(s) ==
    /\ pc[s] = "loop"
    /\ pc' = [pc EXCEPT ![s] = IF r_idx[s] < rounds[s] + 1 THEN "deal" ELSE "finally"]
    /\ UNCHANGED <<conn, data, r_data, err_logged, rounds, r_idx, round_vars, result,
                   sent, results, io_failed, stats_vars, env_vars>>

\* handle_client, the head of `for r_idx in range(rounds)`.
LoopHead(s) ==
    /\ pc[s] = "loop"
    /\ pc' = [pc EXCEPT ![s] = IF r_idx[s] < rounds[s] THEN "deal" ELSE "finally"]
    /\ UNCHANGED <<conn, data, r_data, err_logged, rounds, r_idx, round_vars, result, sent, results,
                   io_failed, stats_vars, env_vars>>

\* The connection closed at the end of the try block only: after a failure the
\* handler returns without closing it.
ExceptNoClose(s) ==
    /\ pc[s] = "except"
    /\ err_logged' = [err_logged EXCEPT ![s] = TRUE]
    /\ pc' = [pc EXCEPT ![s] = "done"]
    /\ UNCHANGED <<conn, data, r_data, rounds, r_idx, round_vars, result, sent, results,
                   io_failed, stats_vars, env_vars>>

\* handle_client, the except clause: the failure is logged.
Except(s) ==
    /\ pc[s] = "except"
    /\ err_logged' = [err_logged EXCEPT ![s] = TRUE]
    /\ pc' = [pc EXCEPT ![s] = "finally"]
    /\ UNCHANGED <<conn, data, r_data, rounds, r_idx, round_vars, result, sent, results,
                   io_failed, stats_vars, env_vars>>

\* The finally clause closing every connection of the server, not its own.
FinallyClosesAll(s) ==
    /\ pc[s] = "finally"
    /\ pc' = [pc EXCEPT ![s] = "done"]
    /\ conn' = [t \in DOMAIN conn |-> "closed"]
    /\ UNCHANGED <<data, r_data, err_logged, rounds, r_idx, round_vars, result, sent,
                   results, io_failed, stats_vars, env_vars>>

\* handle_client, the finally clause: conn.close().
Finally(s) ==
    /\ pc[s] = "finally"
    /\ pc' = [pc EXCEPT ![s] = "done"]
    /\ conn' = [conn EXCEPT ![s] = "closed"]
    /\ UNCHANGED <<data, r_data, err_logged, rounds, r_idx, round_vars, result, sent, results,
                   io_failed, stats_vars, env_vars>>

\* ---------------------------------------------------------- the round engine
\* conn.send(packet) of send_payload: the packet goes out, or the send raises.
Send(s, pkt, next) ==
    \/ /\ conn[s] = "open"
       /\ sent' = [sent EXCEPT ![s] = Append(@, pkt)]
       /\ pc' = [pc EXCEPT ![s] = next]
    \/ /\ Raise(s)
       /\ UNCHANGED sent

\* play_round, the initial deal: four cards and the two totals.
InitialDeal(s, shoe) ==
    /\ pc[s] = "deal"
    /\ \E c1 \in DealCard(shoe), c2 \in DealCard(shoe),
          c3 \in DealCard(shoe), c4 \in DealCard(shoe) :
            /\ p_c1' = [p_c1 EXCEPT ![s] = <<c1[1], c1[2]>>]
            /\ p_c2' = [p_c2 EXCEPT ![s] = <<c2[1], c2[2]>>]
            /\ d_c1' = [d_c1 EXCEPT ![s] = <<c3[1], c3[2]>>]
            /\ d_c2' = [d_c2 EXCEPT ![s] = <<c4[1], c4[2]>>]
            /\ player_sum' = [player_sum EXCEPT ![s] = c1[3] + c2[3]]
            /\ dealer_sum' = [dealer_sum EXCEPT ![s] = c3[3] + c4[3]]
    /\ n_initial' = [n_initial EXCEPT ![s] = 0]
    /\ card' = [card EXCEPT ![s] = NoCard]
    /\ sent' = [sent EXCEPT ![s] = <<>>]
    /\ r_data' = [r_data EXCEPT ![s] = NoData]
    /\ pc' = [pc EXCEPT ![s] = "send_initial"]
    /\ UNCHANGED <<conn, data, err_logged, rounds, r_idx, result, results, io_failed,
                   stats_vars, env_vars>>

\* The initial deal sending the dealer's second card in place of its first.
SendInitialHiddenCard(s) ==
    /\ pc[s] = "send_initial"
    /\ LET c == <<p_c1[s], p_c2[s], d_c2[s]>>[n_initial[s] + 1]
       IN Send(s, Payload(0, c[1], c[2]),
               IF n_initial[s] = 2 THEN "player_loop" ELSE "send_initial")
    /\ n_initial' = [n_initial EXCEPT ![s] = IF pc'[s] = "except" THEN @ ELSE @ + 1]
    /\ UNCHANGED <<conn, data, r_data, err_logged, rounds, r_idx, p_c1, p_c2, d_c1, d_c2, player_sum,
                   dealer_sum, card, result, results, io_failed, stats_vars, env_vars>>

\* play_round, one iteration of the loop sending the player's two cards and the
\* dealer's first.
SendInitial(s) ==
    /\ pc[s] = "send_initial"
    /\ LET c == <<p_c1[s], p_c2[s], d_c1[s]>>[n_initial[s] + 1]
       IN Send(s, Payload(0, c[1], c[2]),
               IF n_initial[s] = 2 THEN "player_loop" ELSE "send_initial")
    /\ n_initial' = [n_initial EXCEPT ![s] = IF pc'[s] = "except" THEN @ ELSE @ + 1]
    /\ UNCHANGED <<conn, data, r_data, err_logged, rounds, r_idx, p_c1, p_c2, d_c1, d_c2, player_sum,
                   dealer_sum, card, result, results, io_failed, stats_vars, env_vars>>

\* The player loop written `while True`: only a stand leaves it.
PlayerLoopForever(s) ==
    /\ pc[s] = "player_loop"
    /\ pc' = [pc EXCEPT ![s] = "recv_decision"]
    /\ UNCHANGED <<conn, data, r_data, err_logged, rounds, r_idx, round_vars, result, sent, results,
                   io_failed, stats_vars, env_vars>>

\* play_round, the head of `while player_sum <= 21`.
PlayerLoop(s) ==
    /\ pc[s] = "player_loop"
    /\ pc' = [pc EXCEPT ![s] = IF player_sum[s] <= 21 THEN "recv_decision" ELSE "reveal"]
    /\ UNCHANGED <<conn, data, r_data, err_logged, rounds, r_idx, round_vars, result, sent, results,
                   io_failed, stats_vars, env_vars>>

\* play_round, the read of a Decision up to the draw of the hit card.
RecvDecision(s, shoe) ==
    /\ pc[s] = "recv_decision"
    /\ \/ /\ Raise(s)
          /\ io_failed' = [io_failed EXCEPT ![s] = r_idx[s]]
          /\ UNCHANGED <<r_data, player_sum, card>>
       \/ \E d \in DecisionInputs :
            /\ r_data' = [r_data EXCEPT ![s] = d]
            /\ IF d.len = 0
               THEN \* `if not data: break`
                    /\ pc' = [pc EXCEPT ![s] = "reveal"]
                    /\ io_failed' = [io_failed EXCEPT ![s] = r_idx[s]]
                    /\ UNCHANGED <<player_sum, card>>
               ELSE IF d.len # DecisionLen
               THEN \* struct.unpack raises on a buffer that is not 10 bytes
                    /\ Raise(s)
                    /\ io_failed' = [io_failed EXCEPT ![s] = r_idx[s]]
                    /\ UNCHANGED <<player_sum, card>>
               ELSE IF ~Decodable(d.action)
               THEN /\ Raise(s)
                    /\ UNCHANGED <<player_sum, card, io_failed>>
               ELSE IF DecodeDecision(d.action) = Hittt
               THEN /\ \E c \in DealCard(shoe) :
                         /\ card' = [card EXCEPT ![s] = <<c[1], c[2]>>]
                         /\ player_sum' = [player_sum EXCEPT ![s] = @ + c[3]]
                    /\ pc' = [pc EXCEPT ![s] = "send_hit"]
                    /\ UNCHANGED io_failed
               ELSE /\ pc' = [pc EXCEPT ![s] = "reveal"]
                    /\ UNCHANGED <<player_sum, card, io_failed>>
    /\ UNCHANGED <<conn, data, err_logged, rounds, r_idx, p_c1, p_c2, d_c1, d_c2,
                   dealer_sum, n_initial, result, sent, results, stats_vars, env_vars>>

\* play_round, the send of the hit card.
SendHit(s) ==
    /\ pc[s] = "send_hit"
    /\ Send(s, Payload(0, card[s][1], card[s][2]), "player_loop")
    /\ UNCHANGED <<conn, data, r_data, err_logged, rounds, r_idx, round_vars, result, results, io_failed,
                   stats_vars, env_vars>>

\* The dealer phase without `if player_sum <= 21`: the dealer plays after a bust.
RevealAlwaysDealer(s) ==
    /\ pc[s] = "reveal"
    /\ Send(s, Payload(0, d_c2[s][1], d_c2[s][2]), "dealer_loop")
    /\ UNCHANGED <<conn, data, r_data, err_logged, rounds, r_idx, round_vars, result, results, io_failed,
                   stats_vars, env_vars>>

\* The hidden card revealed only inside `if player_sum <= 21`: a bust round
\* goes to its outcome without showing it.
RevealUnlessBust(s) ==
    /\ pc[s] = "reveal"
    /\ IF player_sum[s] <= 21
       THEN Send(s, Payload(0, d_c2[s][1], d_c2[s][2]), "dealer_loop")
       ELSE /\ pc' = [pc EXCEPT ![s] = "decide"]
            /\ UNCHANGED sent
    /\ UNCHANGED <<conn, data, r_data, err_logged, rounds, r_idx, round_vars, result, results, io_failed,
                   stats_vars, env_vars>>

\* play_round, the dealer phase: the hidden card is revealed.
Reveal(s) ==
    /\ pc[s] = "reveal"
    /\ Send(s, Payload(0, d_c2[s][1], d_c2[s][2]),
            IF player_sum[s] <= 21 THEN "dealer_loop" ELSE "decide")
    /\ UNCHANGED <<conn, data, r_data, err_logged, rounds, r_idx, round_vars, result, results, io_failed,
                   stats_vars, env_vars>>

\* The dealer loop written `while dealer_sum <= 17`.
DealerLoopInclusive(s, shoe) ==
    /\ pc[s] = "dealer_loop"
    /\ IF dealer_sum[s] <= 17
       THEN /\ \E c \in DealCard(shoe) :
                 /\ card' = [card EXCEPT ![s] = <<c[1], c[2]>>]
                 /\ dealer_sum' = [dealer_sum EXCEPT ![s] = @ + c[3]]
            /\ pc' = [pc EXCEPT ![s] = "send_draw"]
       ELSE /\ pc' = [pc EXCEPT ![s] = "decide"]
            /\ UNCHANGED <<card, dealer_sum>>
    /\ UNCHANGED <<conn, data, r_data, err_logged, rounds, r_idx, p_c1, p_c2, d_c1, d_c2, player_sum,
                   n_initial, result, sent, results, io_failed, stats_vars, env_vars>>

\* play_round, `while dealer_sum < 17`: the head of the loop and the draw.
DealerLoop(s, shoe) ==
    /\ pc[s] = "dealer_loop"
    /\ IF dealer_sum[s] < 17
       THEN /\ \E c \in DealCard(shoe) :
                 /\ card' = [card EXCEPT ![s] = <<c[1], c[2]>>]
                 /\ dealer_sum' = [dealer_sum EXCEPT ![s] = @ + c[3]]
            /\ pc' = [pc EXCEPT ![s] = "send_draw"]
       ELSE /\ pc' = [pc EXCEPT ![s] = "decide"]
            /\ UNCHANGED <<card, dealer_sum>>
    /\ UNCHANGED <<conn, data, r_data, err_logged, rounds, r_idx, p_c1, p_c2, d_c1, d_c2, player_sum,
                   n_initial, result, sent, results, io_failed, stats_vars, env_vars>>

\* play_round, the send of the card the dealer drew.
SendDraw(s) ==
    /\ pc[s] = "send_draw"
    /\ Send(s, Payload(0, card[s][1], card[s][2]), "dealer_loop")
    /\ UNCHANGED <<conn, data, r_data, err_logged, rounds, r_idx, round_vars, result, results, io_failed,
                   stats_vars, env_vars>>

\* The chain with the dealer's bust tested before the player's.
OutcomeDealerBustFirst(p, d) ==
    IF d > 21 THEN 3
    ELSE IF p > 21 THEN 2
    ELSE IF p > d THEN 3
    ELSE IF d > p THEN 2
    ELSE 1

\* play_round, "Decide Outcome": the first-match chain of if/elif.
Outcome(p, d) ==
    IF p > 21 THEN 2
    ELSE IF d > 21 THEN 3
    ELSE IF p > d THEN 3
    ELSE IF d > p THEN 2
    ELSE 1

\* play_round, the outcome is computed.
Decide(s) ==
    /\ pc[s] = "decide"
    /\ result' = [result EXCEPT ![s] = Outcome(player_sum[s], dealer_sum[s])]
    /\ pc' = [pc EXCEPT ![s] = "send_result"]
    /\ UNCHANGED <<conn, data, r_data, err_logged, rounds, r_idx, round_vars, sent, results, io_failed,
                   stats_vars, env_vars>>

\* play_round, the outcome is sent and returned to handle_client.
SendResult(s) ==
    /\ pc[s] = "send_result"
    /\ \/ /\ conn[s] = "open"
          /\ sent' = [sent EXCEPT ![s] = Append(@, Payload(result[s], 0, 0))]
          /\ results' = [results EXCEPT ![s] = Append(@, result[s])]
          /\ pc' = [pc EXCEPT ![s] = "lock"]
       \/ /\ Raise(s)
          /\ UNCHANGED <<sent, results>>
    /\ UNCHANGED <<conn, data, r_data, err_logged, rounds, r_idx, round_vars, result, io_failed,
                   stats_vars, env_vars>>

\* ------------------------------------------------------ the global statistics
\* update_global_stats without mutual exclusion: the lock never blocks.
LockIgnored == TRUE

\* update_global_stats, `with self.stats_lock`: the lock can be taken when free.
LockFree == stats_lock = 0

\* update_global_stats: the lock is acquired.
Lock(s) ==
    /\ pc[s] = "lock"
    /\ LockFree
    /\ stats_lock' = s
    /\ pc' = [pc EXCEPT ![s] = "load"]
    /\ UNCHANGED <<conn, data, r_data, err_logged, rounds, r_idx, round_vars, result, sent, results,
                   io_failed, total_wins, total_losses, total_ties, tmp, printed,
                   env_vars>>

\* The two comments of update_global_stats read the wrong way round: a player
\* win counted as a house win.
CounterSwapped(res) == IF res = 3 THEN "wins" ELSE IF res = 2 THEN "losses" ELSE "ties"

\* update_global_stats: the counter the result selects.
Counter(res) == IF res = 3 THEN "losses" ELSE IF res = 2 THEN "wins" ELSE "ties"

\* update_global_stats, `+= 1`: the counter is read ...
Load(s) ==
    /\ pc[s] = "load"
    /\ tmp' = [tmp EXCEPT ![s] =
                 CASE Counter(result[s]) = "losses" -> total_losses
                   [] Counter(result[s]) = "wins" -> total_wins
                   [] OTHER -> total_ties]
    /\ pc' = [pc EXCEPT ![s] = "store"]
    /\ UNCHANGED <<conn, data, r_data, err_logged, rounds, r_idx, round_vars, result, sent, results,
                   io_failed, total_wins, total_losses, total_ties, stats_lock,
                   printed, env_vars>>

\* The with block ending after the increment: the lock is released before
\* total_games is computed.
StoreThenRelease(s) ==
    /\ pc[s] = "store"
    /\ total_losses' = IF Counter(result[s]) = "losses" THEN tmp[s] + 1 ELSE total_losses
    /\ total_wins' = IF Counter(result[s]) = "wins" THEN tmp[s] + 1 ELSE total_wins
    /\ total_ties' = IF Counter(result[s]) = "ties" THEN tmp[s] + 1 ELSE total_ties
    /\ stats_lock' = 0
    /\ pc' = [pc EXCEPT ![s] = "total"]
    /\ UNCHANGED <<conn, data, r_data, err_logged, rounds, r_idx, round_vars, result,
                   sent, results, io_failed, tmp, printed, env_vars>>

\* ... and written back one larger.
Store(s) ==
    /\ pc[s] = "store"
    /\ total_losses' = IF Counter(result[s]) = "losses" THEN tmp[s] + 1 ELSE total_losses
    /\ total_wins' = IF Counter(result[s]) = "wins" THEN tmp[s] + 1 ELSE total_wins
    /\ total_ties' = IF Counter(result[s]) = "ties" THEN tmp[s] + 1 ELSE total_ties
    /\ pc' = [pc EXCEPT ![s] = "total"]
    /\ UNCHANGED <<conn, data, r_data, err_logged, rounds, r_idx, round_vars, result, sent, results,
                   io_failed, stats_lock, tmp, printed, env_vars>>

\* update_global_stats: total_games is computed and printed.
Total(s) ==
    /\ pc[s] = "total"
    /\ printed' = Append(printed, total_wins + total_losses + total_ties)
    /\ pc' = [pc EXCEPT ![s] = "unlock"]
    /\ UNCHANGED <<conn, data, r_data, err_logged, rounds, r_idx, round_vars, result, sent, results,
                   io_failed, total_wins, total_losses, total_ties, stats_lock, tmp,
                   env_vars>>

\* update_global_stats: the with block ends, the lock is released, and
\* handle_client's loop goes to its next iteration.
Unlock(s) ==
    /\ pc[s] = "unlock"
    /\ stats_lock' = 0
    /\ r_idx' = [r_idx EXCEPT ![s] = @ + 1]
    /\ pc' = [pc EXCEPT ![s] = "loop"]
    /\ UNCHANGED <<conn, data, r_data, err_logged, rounds, round_vars, result, sent, results, io_failed,
                   total_wins, total_losses, total_ties, tmp, printed, env_vars>>

\* ------------------------------------------------------------- the beacon
\* broadcast_offers: sendto succeeds and the thread sleeps, or sendto raises.
BeaconSend ==
    /\ beacon = "send"
    /\ offers < MaxOffers
    /\ \/ /\ offers' = offers + 1
          /\ beacon' = "sleep"
       \/ /\ beacon' = "except"
          /\ UNCHANGED offers
    /\ UNCHANGED <<pc, conn, data, r_data, err_logged, rounds, r_idx, round_vars, result, sent, results,
                   io_failed, stats_vars, accepted, pt, dt, out>>

\* broadcast_offers: time.sleep(1) returns, or the except clause has logged the
\* error; either way the loop goes round.
BeaconLoop ==
    /\ beacon \in {"sleep", "except"}
    /\ beacon' = "send"
    /\ UNCHANGED <<pc, conn, data, r_data, err_logged, rounds, r_idx, round_vars, result, sent, results,
                   io_failed, stats_vars, accepted, offers, pt, dt, out>>

\* ------------------------------------------------------- the specifications
Sessions == {1}

Init ==
    /\ InitOver(Sessions)
    /\ pt = 0 /\ dt = 0 /\ out = 0
    /\ InitExt

\* One connection, the shoe `Shoe`.
Next ==
    \/ \E s \in Sessions : Accept(s) /\ UNCHANGED ext_vars
    \/ \E s \in Sessions : RecvRequest(s, RequestInputs) /\ UNCHANGED ext_vars
    \/ \E s \in Sessions : LoopHead(s) /\ UNCHANGED ext_vars
    \/ \E s \in Sessions : InitialDeal(s, Shoe) /\ UNCHANGED ext_vars
    \/ \E s \in Sessions : SendInitial(s) /\ UNCHANGED ext_vars
    \/ \E s \in Sessions : PlayerLoop(s) /\ UNCHANGED ext_vars
    \/ \E s \in Sessions : RecvDecision(s, Shoe) /\ UNCHANGED ext_vars
    \/ \E s \in Sessions : SendHit(s) /\ UNCHANGED ext_vars
    \/ \E s \in Sessions : Reveal(s) /\ UNCHANGED ext_vars
    \/ \E s \in Sessions : DealerLoop(s, Shoe) /\ UNCHANGED ext_vars
    \/ \E s \in Sessions : SendDraw(s) /\ UNCHANGED ext_vars
    \/ \E s \in Sessions : Decide(s) /\ UNCHANGED ext_vars
    \/ \E s \in Sessions : SendResult(s) /\ UNCHANGED ext_vars
    \/ \E s \in Sessions : Lock(s) /\ UNCHANGED ext_vars
    \/ \E s \in Sessions : Load(s) /\ UNCHANGED ext_vars
    \/ \E s \in Sessions : Store(s) /\ UNCHANGED ext_vars
    \/ \E s \in Sessions : Total(s) /\ UNCHANGED ext_vars
    \/ \E s \in Sessions : Unlock(s) /\ UNCHANGED ext_vars
    \/ \E s \in Sessions : Except(s) /\ UNCHANGED ext_vars
    \/ \E s \in Sessions : Finally(s) /\ UNCHANGED ext_vars

Spec == Init /\ [][Next]_vars

\* One round of one connection: handle_client has read a Request for a single
\* round and is about to call play_round.
InitRound ==
    /\ pc = [s \in Sessions |-> "deal"]
    /\ conn = [s \in Sessions |-> "open"]
    /\ data = [s \in Sessions |-> Bytes(RequestLen, MAGIC_COOKIE, REQUEST_TYPE, 1, <<>>)]
    /\ r_data = [s \in Sessions |-> NoData]
    /\ err_logged = [s \in Sessions |-> FALSE]
    /\ rounds = [s \in Sessions |-> 1]
    /\ r_idx = [s \in Sessions |-> 0]
    /\ p_c1 = [s \in Sessions |-> NoCard]
    /\ p_c2 = [s \in Sessions |-> NoCard]
    /\ d_c1 = [s \in Sessions |-> NoCard]
    /\ d_c2 = [s \in Sessions |-> NoCard]
    /\ player_sum = [s \in Sessions |-> 0]
    /\ dealer_sum = [s \in Sessions |-> 0]
    /\ n_initial = [s \in Sessions |-> 0]
    /\ card = [s \in Sessions |-> NoCard]
    /\ result = [s \in Sessions |-> 0]
    /\ sent = [s \in Sessions |-> <<>>]
    /\ results = [s \in Sessions |-> <<>>]
    /\ io_failed = [s \in Sessions |-> -1]
    /\ total_wins = 0 /\ total_losses = 0 /\ total_ties = 0
    /\ stats_lock = 0
    /\ tmp = [s \in Sessions |-> 0]
    /\ printed = <<>>
    /\ accepted = Cardinality(Sessions)
    /\ beacon = "send"
    /\ offers = 0
    /\ pt = 0 /\ dt = 0 /\ out = 0
    /\ InitExt

NextRound ==
    \/ \E s \in Sessions : LoopHead(s) /\ UNCHANGED ext_vars
    \/ \E s \in Sessions : InitialDeal(s, Shoe) /\ UNCHANGED ext_vars
    \/ \E s \in Sessions : SendInitial(s) /\ UNCHANGED ext_vars
    \/ \E s \in Sessions : PlayerLoop(s) /\ UNCHANGED ext_vars
    \/ \E s \in Sessions : RecvDecision(s, Shoe) /\ UNCHANGED ext_vars
    \/ \E s \in Sessions : SendHit(s) /\ UNCHANGED ext_vars
    \/ \E s \in Sessions : Reveal(s) /\ UNCHANGED ext_vars
    \/ \E s \in Sessions : DealerLoop(s, Shoe) /\ UNCHANGED ext_vars
    \/ \E s \in Sessions : SendDraw(s) /\ UNCHANGED ext_vars
    \/ \E s \in Sessions : Decide(s) /\ UNCHANGED ext_vars
    \/ \E s \in Sessions : SendResult(s) /\ UNCHANGED ext_vars
    \/ \E s \in Sessions : Lock(s) /\ UNCHANGED ext_vars
    \/ \E s \in Sessions : Load(s) /\ UNCHANGED ext_vars
    \/ \E s \in Sessions : Store(s) /\ UNCHANGED ext_vars
    \/ \E s \in Sessions : Total(s) /\ UNCHANGED ext_vars
    \/ \E s \in Sessions : Unlock(s) /\ UNCHANGED ext_vars
    \/ \E s \in Sessions : Except(s) /\ UNCHANGED ext_vars
    \/ \E s \in Sessions : Finally(s) /\ UNCHANGED ext_vars

\* The handler thread keeps running: a step that stays possible is eventually
\* taken, so every blocking read returns.
SpecRound == InitRound /\ [][NextRound]_vars /\ WF_vars(NextRound)

\* Two concurrent connections and the beacon; the shoe `MultiShoe`.
MultiSessions == {1, 2}

InitMulti ==
    /\ InitOver(MultiSessions)
    /\ pt = 0 /\ dt = 0 /\ out = 0
    /\ InitExt

NextMulti ==
    \/ \E s \in MultiSessions : Accept(s) /\ UNCHANGED ext_vars
    \/ \E s \in MultiSessions : RecvRequest(s, MultiRequestInputs) /\ UNCHANGED ext_vars
    \/ \E s \in MultiSessions : LoopHead(s) /\ UNCHANGED ext_vars
    \/ \E s \in MultiSessions : InitialDeal(s, MultiShoe) /\ UNCHANGED ext_vars
    \/ \E s \in MultiSessions : SendInitial(s) /\ UNCHANGED ext_vars
    \/ \E s \in MultiSessions : PlayerLoop(s) /\ UNCHANGED ext_vars
    \/ \E s \in MultiSessions : RecvDecision(s, MultiShoe) /\ UNCHANGED ext_vars
    \/ \E s \in MultiSessions : SendHit(s) /\ UNCHANGED ext_vars
    \/ \E s \in MultiSessions : Reveal(s) /\ UNCHANGED ext_vars
    \/ \E s \in MultiSessions : DealerLoop(s, MultiShoe) /\ UNCHANGED ext_vars
    \/ \E s \in MultiSessions : SendDraw(s) /\ UNCHANGED ext_vars
    \/ \E s \in MultiSessions : Decide(s) /\ UNCHANGED ext_vars
    \/ \E s \in MultiSessions : SendResult(s) /\ UNCHANGED ext_vars
    \/ \E s \in MultiSessions : Lock(s) /\ UNCHANGED ext_vars
    \/ \E s \in MultiSessions : Load(s) /\ UNCHANGED ext_vars
    \/ \E s \in MultiSessions : Store(s) /\ UNCHANGED ext_vars
    \/ \E s \in MultiSessions : Total(s) /\ UNCHANGED ext_vars
    \/ \E s \in MultiSessions : Unlock(s) /\ UNCHANGED ext_vars
    \/ \E s \in MultiSessions : Except(s) /\ UNCHANGED ext_vars
    \/ \E s \in MultiSessions : Finally(s) /\ UNCHANGED ext_vars
    \/ BeaconSend /\ UNCHANGED ext_vars
    \/ BeaconLoop /\ UNCHANGED ext_vars

SpecMulti == InitMulti /\ [][NextMulti]_vars

\* NumThreads session handlers, each past its Request and about to play its
\* rounds; a round is any play_round call that returns, whatever its outcome.
Threads == 1..NumThreads

InitStats ==
    /\ InitOver(Threads)
    /\ pt = 0 /\ dt = 0 /\ out = 0
    /\ InitExt

\* run and handle_client up to the loop: the thread is started on an accepted
\* connection and its Request asks for n rounds.
StartHandler(s) ==
    /\ pc[s] = "idle"
    /\ \E n \in 0..MaxCalls : rounds' = [rounds EXCEPT ![s] = n]
    /\ conn' = [conn EXCEPT ![s] = "open"]
    /\ accepted' = accepted + 1
    /\ pc' = [pc EXCEPT ![s] = "loop"]
    /\ UNCHANGED <<data, r_data, err_logged, r_idx, round_vars, result, sent, results, io_failed,
                   stats_vars, beacon, offers, pt, dt, out>>

\* handle_client, `result = self.play_round(conn, team_name)`: the call returns
\* one of the three outcomes.
PlayRoundReturns(s) ==
    /\ pc[s] = "deal"
    /\ \E res \in 1..3 :
         /\ result' = [result EXCEPT ![s] = res]
         /\ results' = [results EXCEPT ![s] = Append(@, res)]
    /\ pc' = [pc EXCEPT ![s] = "lock"]
    /\ UNCHANGED <<conn, data, r_data, err_logged, rounds, r_idx, round_vars, sent, io_failed,
                   stats_vars, env_vars>>

NextStats ==
    \/ \E s \in Threads : StartHandler(s) /\ UNCHANGED ext_vars
    \/ \E s \in Threads : LoopHead(s) /\ UNCHANGED ext_vars
    \/ \E s \in Threads : PlayRoundReturns(s) /\ UNCHANGED ext_vars
    \/ \E s \in Threads : Lock(s) /\ UNCHANGED ext_vars
    \/ \E s \in Threads : Load(s) /\ UNCHANGED ext_vars
    \/ \E s \in Threads : Store(s) /\ UNCHANGED ext_vars
    \/ \E s \in Threads : Total(s) /\ UNCHANGED ext_vars
    \/ \E s \in Threads : Unlock(s) /\ UNCHANGED ext_vars
    \/ \E s \in Threads : Finally(s) /\ UNCHANGED ext_vars

SpecStats == InitStats /\ [][NextStats]_vars

\* The outcome rule applied to every pair of totals in 0..MaxTotal.
InitOutcome ==
    /\ InitOver({})
    /\ pt \in 0..MaxTotal
    /\ dt \in 0..MaxTotal
    /\ out = 0
    /\ InitExt

\* play_round, "Decide Outcome", on the totals (pt, dt).
ApplyOutcome ==
    /\ out = 0
    /\ out' = Outcome(pt, dt)
    /\ UNCHANGED <<pc, conn, data, r_data, err_logged, rounds, r_idx, round_vars, result, sent, results,
                   io_failed, stats_vars, accepted, beacon, offers, pt, dt>>

NextOutcome == ApplyOutcome /\ UNCHANGED ext_vars

SpecOutcome == InitOutcome /\ [][NextOutcome]_vars

\* ------------------------------------------------- the beacon against time
\* The beacon thread alone, with the time its sleeps take: `clock` counts the
\* seconds slept, `tries` records the clock reading at every sendto call.

\* broadcast_offers, the try block up to the sleep: sendto is called and
\* succeeds, or raises.
BeaconTry ==
    /\ beacon = "send"
    /\ Len(tries) < MaxTries
    /\ tries' = Append(tries, clock)
    /\ \/ /\ offers' = offers + 1
          /\ beacon' = "sleep"
       \/ /\ beacon' = "except"
          /\ UNCHANGED offers
    /\ UNCHANGED clock

\* broadcast_offers, `time.sleep(1)`: reached only when sendto returned.
BeaconSleep ==
    /\ beacon = "sleep"
    /\ clock' = clock + 1
    /\ beacon' = "send"
    /\ UNCHANGED <<tries, offers>>

\* broadcast_offers, the except clause: the error is printed and the loop goes
\* round; nothing sleeps on this path.
BeaconExcept ==
    /\ beacon = "except"
    /\ beacon' = "send"
    /\ UNCHANGED <<clock, tries, offers>>

beacon_frame == <<pc, conn, data, r_data, err_logged, rounds, r_idx, round_vars, result, sent,
                  results, io_failed, stats_vars, accepted, pt, dt, out,
                  value_vars, client_vars, chan_vars>>

InitBeacon ==
    /\ InitOver({})
    /\ pt = 0 /\ dt = 0 /\ out = 0
    /\ InitExt

NextBeacon ==
    \/ BeaconTry /\ UNCHANGED beacon_frame
    \/ BeaconSleep /\ UNCHANGED beacon_frame
    \/ BeaconExcept /\ UNCHANGED beacon_frame

SpecBeacon == InitBeacon /\ [][NextBeacon]_vars

\* ------------------------------------------------------- the two totals
\* player_client.py calculate_points: the total of a hand of (rank, suit) pairs.
RECURSIVE calculate_points(_)
calculate_points(h) ==
    IF h = <<>> THEN 0
    ELSE LET r == Head(h)[1]
         IN (IF r = 1 THEN 11 ELSE IF r >= 11 THEN 10 ELSE r)
            + calculate_points(Tail(h))

\* play_round of the server: the total it accumulates over the cards deal_card
\* returned, `sum += value`.
RECURSIVE ServerTotal(_)
ServerTotal(h) ==
    IF h = <<>> THEN 0
    ELSE ServerTotal(SubSeq(h, 1, Len(h) - 1)) + CardValue(h[Len(h)][1])

\* The hand a client holds after receiving the cards `h` one packet each.
Received(h) ==
    [k \in 1..Len(h) |->
        LET pkt == Payload(0, h[k][1], h[k][2]) IN <<RankOf(pkt), pkt.suit>>]

\* Every card deal_card can return: randint(1, 13) in the suit randint(0, 3).
FullDeck == (1..MaxRank) \X (0..MaxSuit)
\* The hands of 1..n cards, one suit per rank.
HandsTo(n) ==
    UNION {[1..k -> {<<r, r % (MaxSuit + 1)>> : r \in 1..MaxRank}] : k \in 1..n}

value_frame == <<server_vars, time_vars, client_vars, chan_vars>>

InitValues ==
    /\ InitOver({})
    /\ pt = 0 /\ dt = 0 /\ out = 0
    /\ clock = 0 /\ tries = <<>>
    /\ hand \in HandsTo(MaxHand)
    /\ srv_total = 0
    /\ cli_total = 0
    /\ cpc = "c_idle" /\ link = "up" /\ num_rounds = 0 /\ c_idx = 0 /\ c_i = 0
    /\ player_hand = <<>> /\ dealer_hand = <<>> /\ c_got = NoRecv /\ c_results = <<>>
    /\ to_server = <<>> /\ to_client = <<>>

\* The server deals `hand` and accumulates its total.
ServerTotals ==
    /\ srv_total = 0
    /\ srv_total' = ServerTotal(hand)
    /\ UNCHANGED <<hand, cli_total>>

\* The client totals the cards it received.
ClientTotals ==
    /\ cli_total = 0
    /\ cli_total' = calculate_points(Received(hand))
    /\ UNCHANGED <<hand, srv_total>>

NextValues ==
    \/ ServerTotals /\ UNCHANGED value_frame
    \/ ClientTotals /\ UNCHANGED value_frame

SpecValues == InitValues /\ [][NextValues]_vars

\* ------------------------------------------------------------ the client
\* player_client.py from the moment start_client has accepted an offer: the
\* session over one TCP connection and its rounds.

\* What sock.recv(9) hands to safe_recv when it returns fewer than 9 bytes or
\* raises (a closed or reset connection, the 15-second timeout).
NoPacket == [cookie |-> "", type |-> 0, result |-> 0, rank_h |-> 0, rank_l |-> 0, suit |-> 0]

\* safe_recv: (res, rank, suit) of a whole packet with the right cookie, and
\* (0, 0, 0) after any exception, its own ConnectionError and ValueError included.
safe_recv(d) ==
    IF d = NoPacket THEN NoRecv
    ELSE IF d.cookie # MAGIC_COOKIE THEN NoRecv
    ELSE <<d.result, RankOf(d), d.suit>>

\* The hit sent as the word "Hit" padded to five bytes.
DecisionOfHit(choice) ==
    Bytes(DecisionLen, MAGIC_COOKIE, PAYLOAD_TYPE, 0, IF choice = "h" THEN HitPadded ELSE Stand)

\* The 10-byte Decision the client packs for a choice 'h' or 's'.
DecisionOf(choice) ==
    Bytes(DecisionLen, MAGIC_COOKIE, PAYLOAD_TYPE, 0, IF choice = "h" THEN Hittt ELSE Stand)

client_frame == <<server_vars, time_vars, value_vars>>

\* start_client, Step 2: num_rounds is read (0 is asked again), the connection
\* is made and the Request sent.
ClientConnect ==
    /\ cpc = "c_idle"
    /\ \E n \in 1..MaxRounds :
         /\ num_rounds' = n
         /\ to_server' = Append(to_server, Bytes(RequestLen, MAGIC_COOKIE, REQUEST_TYPE, n, <<>>))
    /\ c_idx' = 0
    /\ cpc' = "c_round"
    /\ UNCHANGED <<link, c_i, player_hand, dealer_hand, c_got, c_results, to_client>>

\* start_client, the head of `for r_idx in range(num_rounds)`: play_round is
\* entered with two empty hands, or the session ends and the with block closes
\* the socket.
ClientLoopHead ==
    /\ cpc = "c_round"
    /\ IF c_idx < num_rounds
       THEN /\ player_hand' = <<>>
            /\ dealer_hand' = <<>>
            /\ c_i' = 0
            /\ cpc' = "c_deal"
       ELSE /\ cpc' = "c_done"
            /\ UNCHANGED <<player_hand, dealer_hand, c_i>>
    /\ UNCHANGED <<link, num_rounds, c_idx, c_got, c_results, chan_vars>>

\* play_round, Step A: one iteration of `for _ in range(3)` on the bytes d.
ClientStepA(d) ==
    /\ cpc = "c_deal"
    /\ c_got' = safe_recv(d)
    /\ IF c_i < 2
       THEN /\ player_hand' = Append(player_hand, <<c_got'[2], c_got'[3]>>)
            /\ UNCHANGED dealer_hand
       ELSE /\ dealer_hand' = Append(dealer_hand, <<c_got'[2], c_got'[3]>>)
            /\ UNCHANGED player_hand
    /\ c_i' = c_i + 1
    /\ cpc' = IF c_i = 2 THEN "c_turn" ELSE "c_deal"
    /\ UNCHANGED <<link, num_rounds, c_idx, c_results, to_server>>

\* The bust test written `p_sum >= 21`.
ClientTurnBustAt21 ==
    /\ cpc = "c_turn"
    /\ cpc' = IF calculate_points(player_hand) >= 21 THEN "c_result" ELSE "c_choose"
    /\ UNCHANGED <<link, num_rounds, c_idx, c_i, player_hand, dealer_hand, c_got, c_results,
                   chan_vars>>

\* play_round, Step B: the head of the loop, `if p_sum > 21: break`.
ClientTurn ==
    /\ cpc = "c_turn"
    /\ cpc' = IF calculate_points(player_hand) > 21 THEN "c_result" ELSE "c_choose"
    /\ UNCHANGED <<link, num_rounds, c_idx, c_i, player_hand, dealer_hand, c_got, c_results,
                   chan_vars>>

\* play_round, Step B: the user's choice is sent; a send on a connection that
\* is down can raise BrokenPipeError, which leaves play_round.
ClientDecide(choice) ==
    /\ cpc = "c_choose"
    /\ \/ /\ to_server' = Append(to_server, DecisionOf(choice))
          /\ cpc' = IF choice = "s" THEN "c_result" ELSE "c_hit"
       \/ /\ link = "down"
          /\ cpc' = "c_abort"
          /\ UNCHANGED to_server
    /\ UNCHANGED <<link, num_rounds, c_idx, c_i, player_hand, dealer_hand, c_got, c_results,
                   to_client>>

\* play_round, Step B: the card of a hit is received and added to the hand.
ClientHit(d) ==
    /\ cpc = "c_hit"
    /\ c_got' = safe_recv(d)
    /\ player_hand' = Append(player_hand, <<c_got'[2], c_got'[3]>>)
    /\ cpc' = "c_turn"
    /\ UNCHANGED <<link, num_rounds, c_idx, c_i, dealer_hand, c_results, to_server>>

\* play_round, Step C: the receive at the head of the loop.
ClientResultRecv(d) ==
    /\ cpc = "c_result"
    /\ c_got' = safe_recv(d)
    /\ cpc' = "c_check"
    /\ UNCHANGED <<link, num_rounds, c_idx, c_i, player_hand, dealer_hand, c_results, to_server>>

\* play_round, Step C: `if rank != 0` the card joins the dealer's hand, and
\* `if res != 0` the round returns res to start_client; else the loop goes round.
ClientResultCheck ==
    /\ cpc = "c_check"
    /\ dealer_hand' = IF c_got[2] # 0
                      THEN Append(dealer_hand, <<c_got[2], c_got[3]>>)
                      ELSE dealer_hand
    /\ IF c_got[1] # 0
       THEN /\ c_results' = Append(c_results, c_got[1])
            /\ c_idx' = c_idx + 1
            /\ cpc' = "c_round"
       ELSE /\ cpc' = "c_result"
            /\ UNCHANGED <<c_results, c_idx>>
    /\ UNCHANGED <<link, num_rounds, c_i, player_hand, c_got, chan_vars>>

\* start_client, `except (socket.timeout, ConnectionError)`: the with block has
\* closed the socket and the client goes back to listening for offers.
ClientAbort ==
    /\ cpc = "c_abort"
    /\ cpc' = "c_listening"
    /\ UNCHANGED <<link, num_rounds, c_idx, c_i, player_hand, dealer_hand, c_got, c_results,
                   chan_vars>>

\* --------------------------------------- one session over a reliable connection
\* The server's handler and the client joined by a connection that delivers
\* every message whole and in order: nothing raises, a recv returns the oldest
\* message in flight and blocks while there is none.
TheSession == 1
\* The shoe of the joined session: an ace and a six, enough for a bust on the
\* initial deal, hits, stands and dealer draws.
LockShoe == {<<1, 1>>, <<6, 2>>}

\* A send of the handler s puts the packet it logged in flight.
ServerSent(s) ==
    /\ pc'[s] # "except"
    /\ to_client' = Append(to_client, sent'[s][Len(sent'[s])])
    /\ UNCHANGED <<time_vars, value_vars, client_vars, to_server>>

\* A recv of the handler s took the oldest message in flight.
ServerReceived ==
    /\ to_server' = Tail(to_server)
    /\ UNCHANGED <<time_vars, value_vars, client_vars, to_client>>

\* A recv of the client takes the oldest message in flight.
ClientReceived ==
    /\ to_client' = Tail(to_client)
    /\ UNCHANGED client_frame

InitLock ==
    /\ InitOver({TheSession})
    /\ pt = 0 /\ dt = 0 /\ out = 0
    /\ InitExt

NextLock ==
    \/ cpc # "c_idle" /\ Accept(TheSession) /\ UNCHANGED ext_vars
    \/ /\ to_server # <<>>
       /\ RecvRequest(TheSession, {Head(to_server)})
       /\ pc'[TheSession] # "except"
       /\ ServerReceived
    \/ LoopHead(TheSession) /\ UNCHANGED ext_vars
    \/ InitialDeal(TheSession, LockShoe) /\ UNCHANGED ext_vars
    \/ SendInitial(TheSession) /\ ServerSent(TheSession)
    \/ PlayerLoop(TheSession) /\ UNCHANGED ext_vars
    \/ /\ to_server # <<>>
       /\ RecvDecision(TheSession, LockShoe)
       /\ r_data'[TheSession] = Head(to_server)
       /\ pc'[TheSession] # "except"
       /\ ServerReceived
    \/ SendHit(TheSession) /\ ServerSent(TheSession)
    \/ Reveal(TheSession) /\ ServerSent(TheSession)
    \/ DealerLoop(TheSession, LockShoe) /\ UNCHANGED ext_vars
    \/ SendDraw(TheSession) /\ ServerSent(TheSession)
    \/ Decide(TheSession) /\ UNCHANGED ext_vars
    \/ SendResult(TheSession) /\ ServerSent(TheSession)
    \/ Lock(TheSession) /\ UNCHANGED ext_vars
    \/ Load(TheSession) /\ UNCHANGED ext_vars
    \/ Store(TheSession) /\ UNCHANGED ext_vars
    \/ Total(TheSession) /\ UNCHANGED ext_vars
    \/ Unlock(TheSession) /\ UNCHANGED ext_vars
    \/ Finally(TheSession) /\ UNCHANGED ext_vars
    \/ ClientConnect /\ UNCHANGED client_frame
    \/ ClientLoopHead /\ UNCHANGED client_frame
    \/ to_client # <<>> /\ ClientStepA(Head(to_client)) /\ ClientReceived
    \/ ClientTurn /\ UNCHANGED client_frame
    \/ \E choice \in {"h", "s"} : ClientDecide(choice) /\ UNCHANGED client_frame
    \/ to_client # <<>> /\ ClientHit(Head(to_client)) /\ ClientReceived
    \/ to_client # <<>> /\ ClientResultRecv(Head(to_client)) /\ ClientReceived
    \/ ClientResultCheck /\ UNCHANGED client_frame

SpecLock == InitLock /\ [][NextLock]_vars

\* ------------------------------------------- the client on a failing connection
\* The client alone: its peer sends cards and outcomes while the connection is
\* up; the connection can go down in the middle of a round (the server closed
\* it, or it broke), after which every recv returns no data and a send may
\* raise.
CardPackets == {Payload(0, c[1], c[2]) : c \in LockShoe}
OutcomePackets == {Payload(res, 0, 0) : res \in 1..3}
InPlayRound == {"c_deal", "c_turn", "c_choose", "c_hit", "c_result", "c_check"}

\* What sock.recv(9) can return for a peer that has the packets `up` to send.
RecvOn(up) == IF link = "up" THEN up ELSE {NoPacket}

\* The connection goes down while play_round runs.
LinkBreaks ==
    /\ link = "up"
    /\ cpc \in InPlayRound
    /\ link' = "down"
    /\ UNCHANGED <<cpc, num_rounds, c_idx, c_i, player_hand, dealer_hand, c_got, c_results,
                   chan_vars>>

\* The bytes the client sent leave its socket.
NetTakes ==
    /\ to_server # <<>>
    /\ to_server' = Tail(to_server)
    /\ UNCHANGED <<client_vars, to_client>>

\* The steps of the client's own thread.
ClientMoves ==
    \/ ClientConnect /\ UNCHANGED client_frame
    \/ ClientLoopHead /\ UNCHANGED client_frame
    \/ \E d \in RecvOn(CardPackets) : ClientStepA(d) /\ UNCHANGED <<client_frame, to_client>>
    \/ ClientTurn /\ UNCHANGED client_frame
    \/ ClientDecide("s") /\ UNCHANGED client_frame
    \/ Len(player_hand) < MaxCards /\ ClientDecide("h") /\ UNCHANGED client_frame
    \/ \E d \in RecvOn(CardPackets) : ClientHit(d) /\ UNCHANGED <<client_frame, to_client>>
    \/ \E d \in RecvOn(IF Len(dealer_hand) < MaxCards THEN CardPackets \cup OutcomePackets
                       ELSE OutcomePackets) :
         ClientResultRecv(d) /\ UNCHANGED <<client_frame, to_client>>
    \/ ClientResultCheck /\ UNCHANGED client_frame
    \/ ClientAbort /\ UNCHANGED client_frame

InitClient ==
    /\ InitOver({})
    /\ pt = 0 /\ dt = 0 /\ out = 0
    /\ InitExt

NextClient ==
    \/ ClientMoves
    \/ LinkBreaks /\ UNCHANGED client_frame
    \/ NetTakes /\ UNCHANGED client_frame

\* The client's thread keeps running: a step of it that stays possible is
\* eventually taken (a recv returns, the user answers the prompt).
SpecClient == InitClient /\ [][NextClient]_vars /\ WF_vars(ClientMoves)

\* ================================================================ claims
Recorded == total_wins + total_losses + total_ties
InStats == {"lock", "load", "store", "total", "unlock"}
Critical == {"load", "store", "total", "unlock"}
\* play_round has returned and handle_client is recording its outcome.
RoundCompleted(s) == pc[s] \in InStats
Last(q) == q[Len(q)]

\* C1: when play_round completes, the last packet sent in the round carries an
\* outcome code in 1..3 with rank 0 and suit 0, and every packet sent before it in
\* the round carries outcome code 0 and a rank in 1..13 (so exactly one packet of
\* the round carries a non-zero outcome code).
C1_OutcomeIsLast ==
    \A s \in DOMAIN pc :
        RoundCompleted(s) =>
            LET m == sent[s] IN
            /\ Len(m) >= 1
            /\ Last(m).result \in 1..3
            /\ RankOf(Last(m)) = 0
            /\ Last(m).suit = 0
            /\ \A n \in 1..(Len(m) - 1) :
                   m[n].result = 0 /\ RankOf(m[n]) \in 1..MaxRank
            /\ Cardinality({n \in 1..Len(m) : m[n].result # 0}) = 1

\* A second round completed with a hit and a dealer draw: seven packets.
C1_Witness ==
    \E s \in DOMAIN pc :
        RoundCompleted(s) /\ r_idx[s] = 1 /\ Len(sent[s]) = 7 /\ Last(sent[s]).result = 1

\* C2: the outcome computed for (player_total, dealer_total) is the first match of:
\* player > 21 gives 2; dealer > 21 gives 3; player > dealer gives 3; dealer >
\* player gives 2; otherwise 1.
C2_FirstMatch ==
    out # 0 =>
        /\ (pt > 21) => out = 2
        /\ (pt <= 21 /\ dt > 21) => out = 3
        /\ (pt <= 21 /\ dt <= 21 /\ pt > dt) => out = 3
        /\ (pt <= 21 /\ dt <= 21 /\ dt > pt) => out = 2
        /\ (pt <= 21 /\ dt <= 21 /\ pt = dt) => out = 1

\* Both bust, 22 against 25: the dealer wins.
C2_Witness == pt = 22 /\ dt = 25 /\ out = 2

\* C3 (as claimed): once a Decision read has failed in round r of a session, the
\* session returns no outcome for round r, records none, and starts no further round.
C3_FailureAbortsRound ==
    \A s \in DOMAIN pc :
        io_failed[s] # -1 =>
            /\ Len(results[s]) <= io_failed[s]
            /\ Recorded <= io_failed[s]
            /\ r_idx[s] = io_failed[s]

\* C4 (as claimed): the server draws and transmits a hit card only for a Decision
\* that carries the magic cookie.
C4_CookieCheckedBeforeHit ==
    \A s \in DOMAIN pc :
        pc[s] = "send_hit" => r_data[s].cookie = MAGIC_COOKIE

RECURSIVE CountIn(_, _)
CountIn(q, o) ==
    IF q = <<>> THEN 0 ELSE (IF Head(q) = o THEN 1 ELSE 0) + CountIn(Tail(q), o)
RECURSIVE Calls(_, _)
\* The number of update_global_stats calls made with outcome o by the threads of S.
Calls(S, o) ==
    IF S = {} THEN 0
    ELSE LET s == CHOOSE x \in S : TRUE IN CountIn(results[s], o) + Calls(S \ {s}, o)

\* C5: whenever no thread is inside update_global_stats, each counter equals the
\* number of calls made with the matching outcome, and the three add up to the
\* number of calls.
C5_NoLostUpdate ==
    (\A s \in DOMAIN pc : pc[s] \notin InStats) =>
        /\ total_wins = Calls(DOMAIN pc, 2)
        /\ total_losses = Calls(DOMAIN pc, 3)
        /\ total_ties = Calls(DOMAIN pc, 1)
        /\ Recorded = Calls(DOMAIN pc, 1) + Calls(DOMAIN pc, 2) + Calls(DOMAIN pc, 3)

\* Every thread has reported one win and finished.
C5_Witness ==
    /\ \A s \in DOMAIN pc : pc[s] = "done" /\ results[s] = <<2>>
    /\ total_wins = NumThreads

\* C6: at most one thread is inside the critical section, and the k-th
\* total_games value printed is k.
C6_ConsistentTotals ==
    /\ Cardinality({s \in DOMAIN pc : pc[s] \in Critical}) <= 1
    /\ \A n \in 1..Len(printed) : printed[n] = n

\* Every thread has made a call and each total has been printed.
C6_Witness ==
    /\ \A s \in DOMAIN pc : pc[s] = "done" /\ Len(results[s]) = 1
    /\ Len(printed) = NumThreads

\* C7: after a first read that was empty, short, of a wrong cookie or of a wrong
\* type, the handler is in its finally clause or done, has sent nothing, played no
\* round, recorded nothing, and when done has closed the connection.
C7_BadRequestEndsSession ==
    \A s \in DOMAIN pc :
        (/\ pc[s] \notin {"idle", "recv_request", "except"}
         /\ ~err_logged[s]
         /\ \/ data[s].len = 0
            \/ data[s].len < RequestLen
            \/ data[s].cookie # MAGIC_COOKIE
            \/ data[s].type # REQUEST_TYPE)
        => /\ pc[s] \in {"finally", "done"}
           /\ sent[s] = <<>>
           /\ results[s] = <<>>
           /\ r_idx[s] = 0
           /\ Recorded = 0
           /\ pc[s] = "done" => conn[s] = "closed"

\* A full-length Request of the right type with a wrong cookie, and the session over.
C7_Witness ==
    \E s \in DOMAIN pc :
        /\ pc[s] = "done"
        /\ data[s].len = RequestLen
        /\ data[s].cookie = BAD_COOKIE
        /\ data[s].type = REQUEST_TYPE
        /\ data[s].rounds = MaxRounds

\* C8: in a session with a valid Request and no exception, (a) a round starts only
\* after every earlier round has sent its outcome as the last packet and recorded
\* it, (b) when the handler is done it has played `rounds` rounds and recorded
\* each once, and the last packet sent is the last round's outcome, (c) with
\* rounds = 0 nothing was sent or recorded.
C8_RoundsInSequence ==
    \A s \in DOMAIN pc :
        (~err_logged[s] /\ pc[s] \notin {"idle", "recv_request", "except"}
         /\ ~RequestShort(data[s]) /\ data[s].cookie = MAGIC_COOKIE
         /\ data[s].type = REQUEST_TYPE)
        => /\ rounds[s] = data[s].rounds
           /\ pc[s] \in {"loop", "deal"} =>
                /\ Len(results[s]) = r_idx[s]
                /\ Recorded = r_idx[s]
                /\ r_idx[s] >= 1 =>
                     /\ sent[s] # <<>>
                     /\ Last(sent[s]) = Payload(results[s][r_idx[s]], 0, 0)
                /\ r_idx[s] = 0 => sent[s] = <<>>
           /\ pc[s] = "done" =>
                /\ r_idx[s] = rounds[s]
                /\ Len(results[s]) = rounds[s]
                /\ Recorded = rounds[s]
                /\ conn[s] = "closed"
                /\ rounds[s] >= 1 =>
                     /\ sent[s] # <<>>
                     /\ Last(sent[s]) = Payload(results[s][rounds[s]], 0, 0)
                /\ rounds[s] = 0 => sent[s] = <<>>

\* A session of MaxRounds rounds run to its end without a failure.
C8_Witness ==
    \E s \in DOMAIN pc :
        /\ pc[s] = "done" /\ ~err_logged[s]
        /\ rounds[s] = MaxRounds /\ Len(results[s]) = MaxRounds
        /\ results[s][1] = 3 /\ results[s][MaxRounds] = 2

\* C9: a handler that has terminated has closed its connection, the close is the
\* handler's last act, and once the connection is closed nothing more is sent or
\* received on it.
C9_ClosedOnEveryExit ==
    /\ [](\A s \in DOMAIN pc : pc[s] = "done" <=> conn[s] = "closed")
    /\ [][\A s \in DOMAIN pc :
            conn[s] = "closed" =>
                /\ sent'[s] = sent[s]
                /\ data'[s] = data[s]
                /\ r_data'[s] = r_data[s]
                /\ pc'[s] = pc[s]]_vars

\* A session that failed in the middle of a round, after sending, and is closed.
C9_Witness ==
    \E s \in DOMAIN pc :
        /\ pc[s] = "done" /\ conn[s] = "closed"
        /\ err_logged[s] /\ Len(sent[s]) >= 4 /\ results[s] = <<>>

\* Everything a session handler owns.
SessionState(s) ==
    <<pc[s], conn[s], data[s], r_data[s], err_logged[s], rounds[s], r_idx[s],
      p_c1[s], p_c2[s], d_c1[s], d_c2[s], player_sum[s], dealer_sum[s],
      n_initial[s], card[s], result[s], sent[s], results[s], io_failed[s], tmp[s]>>

\* Some step of session s in the two-session specification.
MultiStep(s) ==
    \/ Accept(s) \/ RecvRequest(s, MultiRequestInputs) \/ LoopHead(s)
    \/ InitialDeal(s, MultiShoe) \/ SendInitial(s) \/ PlayerLoop(s)
    \/ RecvDecision(s, MultiShoe) \/ SendHit(s) \/ Reveal(s)
    \/ DealerLoop(s, MultiShoe) \/ SendDraw(s) \/ Decide(s) \/ SendResult(s)
    \/ Lock(s) \/ Load(s) \/ Store(s) \/ Total(s) \/ Unlock(s)
    \/ Except(s) \/ Finally(s)

\* C10: (a) a step that changes one session's state changes no other session's
\* state and not the beacon's; (b) the lock is only ever held by a session inside
\* update_global_stats, never by one that failed or ended; (c) whatever the other
\* session has done (failed on a malformed packet or a lost connection, or ended),
\* a session that has not terminated can take its next step, unless it waits for
\* the lock, and then the holder can; the listener can accept a pending connection;
\* (d) the beacon can always go on to its next broadcast.
C10_FailuresAreSessionScoped ==
    /\ [][\A i \in DOMAIN pc :
            SessionState(i)' # SessionState(i) =>
                /\ \A j \in DOMAIN pc \ {i} : SessionState(j)' = SessionState(j)
                /\ beacon' = beacon /\ offers' = offers]_vars
    /\ [](stats_lock # 0 => pc[stats_lock] \in Critical)
    /\ [](\A j \in DOMAIN pc :
            pc[j] # "done" =>
                \/ ENABLED MultiStep(j)
                \/ pc[j] = "lock" /\ stats_lock # 0 /\ ENABLED MultiStep(stats_lock))
    /\ [](offers < MaxOffers => ENABLED (BeaconSend \/ BeaconLoop))

\* One session has failed and is closed while the other has since completed a
\* round and recorded it.
C10_Witness ==
    \E i, j \in DOMAIN pc :
        /\ i # j
        /\ pc[i] = "done" /\ err_logged[i] /\ results[i] = <<>>
        /\ pc[j] = "done" /\ ~err_logged[j] /\ Len(results[j]) = 1
        /\ Recorded = 1
        /\ offers = MaxOffers

\* C11: a failed broadcast send is not retried within the same tick: the beacon
\* makes its next send attempt only after the 1-second interval has elapsed, so
\* no two sendto calls happen at the same clock reading.
C11_OneAttemptPerTick ==
    \A i, j \in 1..Len(tries) : i # j => tries[i] # tries[j]

\* The part of C11 the code keeps: a send error never ends the beacon thread;
\* after the except clause it is back at sendto.
C11_BeaconSurvives ==
    [][beacon = "except" => beacon' = "send"]_vars

\* C12: each call of update_global_stats increments exactly one counter by
\* exactly 1 and leaves the other two unchanged (outcome 3: total_losses,
\* outcome 2: total_wins, outcome 1: total_ties); no step decreases or resets a
\* counter, and the counters change at no other step.
Counters == <<total_wins, total_losses, total_ties>>
Bump(res) ==
    /\ total_losses' = total_losses + (IF res = 3 THEN 1 ELSE 0)
    /\ total_wins' = total_wins + (IF res = 2 THEN 1 ELSE 0)
    /\ total_ties' = total_ties + (IF res = 1 THEN 1 ELSE 0)
C12_OneCounterPerCall ==
    [][/\ total_wins' >= total_wins
       /\ total_losses' >= total_losses
       /\ total_ties' >= total_ties
       /\ \A s \in DOMAIN pc :
            pc[s] = "store" /\ pc'[s] # "store" => Bump(result[s])
       /\ Counters' # Counters =>
            \E s \in DOMAIN pc : pc[s] = "store" /\ pc'[s] = "total"]_vars
C12_Witness ==
    /\ total_losses >= 1
    /\ \E s \in DOMAIN pc : pc[s] = "total" /\ result[s] = 3

\* The pcs of a round in progress or just returned.
PlayerPhase == {"player_loop", "recv_decision", "send_hit", "reveal"}
DealerPhase == {"dealer_loop", "send_draw", "decide", "send_result"}
InRound == {"send_initial"} \cup PlayerPhase \cup DealerPhase \cup InStats
Val(c) == CardValue(c[1])
PlayerTwo(s) == Val(p_c1[s]) + Val(p_c2[s])
DealerTwo(s) == Val(d_c1[s]) + Val(d_c2[s])
\* The values of the cards carried by the packets q[a..b].
RECURSIVE PacketValues(_, _, _)
PacketValues(q, a, b) ==
    IF a > b THEN 0 ELSE CardValue(RankOf(q[a])) + PacketValues(q, a + 1, b)

\* C13: once the player's total exceeds 21 the server reads no further
\* Decision in that round, the dealer draws no card beyond its two, and the
\* round ends with outcome 2.
C13_BustEndsRound ==
    \A s \in DOMAIN pc :
        pc[s] \in InRound /\ player_sum[s] > 21 =>
            /\ pc[s] \notin {"recv_decision", "dealer_loop", "send_draw"}
            /\ dealer_sum[s] = DealerTwo(s)
            /\ pc[s] \in {"send_result"} \cup InStats => result[s] = 2
            /\ RoundCompleted(s) =>
                 /\ Last(results[s]) = 2
                 /\ Last(sent[s]) = Payload(2, 0, 0)
C13_Witness ==
    \E s \in DOMAIN pc :
        /\ RoundCompleted(s)
        /\ player_sum[s] > 21
        /\ player_sum[s] > PlayerTwo(s)
        /\ dealer_sum[s] < 17

\* C14: the dealer draws only while the player's total is at most 21 and its
\* own total is below 17; when the player did not bust the dealer ends on 17 or
\* more, and its total before the last card it drew was below 17.
C14_DealerDrawsBelow17 ==
    \A s \in DOMAIN pc :
        /\ pc[s] = "send_draw" =>
             /\ player_sum[s] <= 21
             /\ dealer_sum[s] - Val(card[s]) < 17
        /\ pc[s] \in {"decide", "send_result"} \cup InStats /\ player_sum[s] <= 21 =>
             dealer_sum[s] >= 17
        /\ RoundCompleted(s) /\ dealer_sum[s] > DealerTwo(s) =>
             /\ player_sum[s] <= 21
             /\ dealer_sum[s] - CardValue(RankOf(sent[s][Len(sent[s]) - 1])) < 17
C14_Witness ==
    \E s \in DOMAIN pc :
        /\ RoundCompleted(s)
        /\ player_sum[s] <= 21
        /\ dealer_sum[s] > DealerTwo(s)
        /\ dealer_sum[s] > 21

\* C15: in every round that reaches the end of the player turn the dealer's
\* second card is sent exactly once with outcome code 0, after the last player
\* card, before every dealer draw and before the outcome message.
\* The positions k of the round's log where the packet is the hidden card, the
\* packets from the fourth to k-1 are the player's hits and those after k the
\* dealer's draws.
RevealedAt(s) ==
    LET n == Len(sent[s])
        cards == IF RoundCompleted(s) THEN n - 1 ELSE n
        pending == IF pc[s] = "send_draw" THEN Val(card[s]) ELSE 0
    IN {k \in 4..cards :
          /\ sent[s][k] = Payload(0, d_c2[s][1], d_c2[s][2])
          /\ PacketValues(sent[s], 4, k - 1) = player_sum[s] - PlayerTwo(s)
          /\ PacketValues(sent[s], k + 1, cards) = dealer_sum[s] - DealerTwo(s) - pending
          /\ \A j \in 1..cards : sent[s][j].result = 0}
C15_HiddenCardRevealedOnce ==
    \A s \in DOMAIN pc :
        /\ pc[s] \in DealerPhase \cup InStats => Cardinality(RevealedAt(s)) = 1
        /\ RoundCompleted(s) => Last(sent[s]).result # 0
C15_Witness ==
    \E s \in DOMAIN pc :
        /\ RoundCompleted(s)
        /\ player_sum[s] > PlayerTwo(s)
        /\ dealer_sum[s] > DealerTwo(s)
        /\ Len(sent[s]) >= 7

\* C16: the first three messages of a round are the player's first card, the
\* player's second card and the dealer's first card, each with outcome code 0,
\* sent before any Decision is read; until the player turn has ended every
\* further message is a hit card, so the dealer's second card is not among them.
C16_InitialDealOrder ==
    \A s \in DOMAIN pc :
        /\ pc[s] \in InRound =>
             /\ Len(sent[s]) >= 1 => sent[s][1] = Payload(0, p_c1[s][1], p_c1[s][2])
             /\ Len(sent[s]) >= 2 => sent[s][2] = Payload(0, p_c2[s][1], p_c2[s][2])
             /\ Len(sent[s]) >= 3 => sent[s][3] = Payload(0, d_c1[s][1], d_c1[s][2])
             /\ Len(sent[s]) < 3 => r_data[s] = NoData /\ pc[s] = "send_initial"
        /\ pc[s] \in PlayerPhase =>
             /\ Len(sent[s]) >= 3
             /\ PacketValues(sent[s], 4, Len(sent[s]))
                  = player_sum[s] - PlayerTwo(s)
                    - (IF pc[s] = "send_hit" THEN Val(card[s]) ELSE 0)
C16_Witness ==
    \E s \in DOMAIN pc :
        /\ pc[s] = "reveal"
        /\ Len(sent[s]) = 4
        /\ d_c1[s] # d_c2[s]
        /\ r_data[s].action = Stand

\* C17: the value of a rank r in 1..13 is 11 for r = 1, 10 for r >= 11 and r
\* otherwise, on the server and on the client alike, so the total the client
\* computes from the ranks it received equals the total the server accumulated
\* for the same cards.
RuleValue(r) == CASE r = 1 -> 11 [] r \in 11..13 -> 10 [] OTHER -> r
RECURSIVE RuleTotal(_)
RuleTotal(h) == IF h = <<>> THEN 0 ELSE RuleValue(Head(h)[1]) + RuleTotal(Tail(h))
C17_SameValueBothSides ==
    /\ srv_total # 0 => srv_total = RuleTotal(hand)
    /\ cli_total # 0 => cli_total = RuleTotal(hand)
    /\ srv_total # 0 /\ cli_total # 0 => srv_total = cli_total
    /\ \A c \in FullDeck :
         /\ CardValue(c[1]) = RuleValue(c[1])
         /\ calculate_points(Received(<<c>>)) = RuleValue(c[1])
C17_Witness ==
    /\ Len(hand) = 2
    /\ hand[1][1] = 1
    /\ hand[2][1] = 13
    /\ srv_total = 21
    /\ cli_total = 21

\* C18: over a reliable in-order connection the server's play_round and the
\* client's play_round stay in lockstep: with nothing in flight the server is
\* at (or on its way to) the Decision read exactly when the client is at (or on
\* its way to) sending one, the client is at a receive exactly when the server's
\* next input or output is a send, the two never both wait to receive, some
\* step is possible until both have finished, and the results the client
\* returns are the outcomes the server computed, round by round.
Quiet == to_server = <<>> /\ to_client = <<>>
ServerAwaitsDecision ==
    \/ pc[TheSession] = "recv_decision"
    \/ pc[TheSession] = "player_loop" /\ player_sum[TheSession] <= 21
ClientOwesDecision ==
    \/ cpc = "c_choose"
    \/ cpc = "c_turn" /\ calculate_points(player_hand) <= 21
ServerOwesPacket ==
    \/ pc[TheSession] \in {"deal", "send_initial", "send_hit", "reveal"} \cup DealerPhase
    \/ pc[TheSession] = "player_loop" /\ player_sum[TheSession] > 21
    \/ pc[TheSession] = "loop" /\ r_idx[TheSession] < rounds[TheSession]
    \/ pc[TheSession] \in InStats /\ r_idx[TheSession] + 1 < rounds[TheSession]
ClientAwaitsPacket ==
    \/ cpc \in {"c_deal", "c_hit", "c_result"}
    \/ cpc = "c_check" /\ (c_got[1] = 0 \/ c_idx + 1 < num_rounds)
    \/ cpc = "c_turn" /\ calculate_points(player_hand) > 21
    \/ cpc = "c_round" /\ c_idx < num_rounds
ServerBlocked == pc[TheSession] \in {"recv_request", "recv_decision"} /\ to_server = <<>>
ClientBlocked == cpc \in {"c_deal", "c_hit", "c_result"} /\ to_client = <<>>
BothFinished == pc[TheSession] = "done" /\ cpc = "c_done" /\ Quiet
C18_Lockstep ==
    /\ Quiet => (ServerAwaitsDecision <=> ClientOwesDecision)
    /\ Quiet => (ServerOwesPacket <=> ClientAwaitsPacket)
    /\ ~(ServerBlocked /\ ClientBlocked)
    /\ BothFinished \/ ENABLED NextLock
    /\ cpc = "c_choose" => calculate_points(player_hand) = player_sum[TheSession]
    /\ Len(c_results) <= Len(results[TheSession])
    /\ \A k \in 1..Len(c_results) : c_results[k] = results[TheSession][k]
    /\ BothFinished => Len(c_results) = num_rounds
C18_Witness ==
    /\ BothFinished
    /\ Len(c_results) = 2
    /\ c_results[1] # c_results[2]
    /\ Len(player_hand) >= 3
    /\ Len(dealer_hand) >= 3

\* C19: when the connection goes down in the middle of a round the client's
\* play_round eventually stops and the session is given up, its connection
\* released: the client does not keep looping on failed receives.
SessionReleased == cpc \in {"c_done", "c_listening"}
C19_ClientStopsAfterBreak == (link = "down") ~> SessionReleased

\* C20: every server round terminates: each drawn card adds at least 2 to a
\* total, so every step of play_round lowers a non-negative measure of the
\* work left (the cards of the initial deal still to send, the player's room
\* below 22, the dealer's room below 17), and a round that has dealt its cards
\* reaches its outcome message unless a send or a read raises.
RoundPcs == {"send_initial"} \cup PlayerPhase \cup DealerPhase
Room(total, limit) == IF total >= limit THEN 0 ELSE limit - total
Measure(p, ni, ps, ds) ==
    CASE p = "send_initial" -> 1003 - ni
      [] p = "player_loop" -> 500 + 4 * Room(ps, 22) + 3
      [] p = "recv_decision" -> 500 + 4 * Room(ps, 22) + 2
      [] p = "send_hit" -> 500 + 4 * Room(ps, 22) + 4
      [] p = "reveal" -> 400
      [] p = "dealer_loop" -> 200 + 4 * Room(ds, 17) + 3
      [] p = "send_draw" -> 200 + 4 * Room(ds, 17) + 4
      [] p = "decide" -> 100
      [] p = "send_result" -> 50
      [] OTHER -> 0
MeasureOf(s) == Measure(pc[s], n_initial[s], player_sum[s], dealer_sum[s])
C20_RoundTerminates ==
    /\ [][\A s \in DOMAIN pc :
            /\ pc[s] \in RoundPcs =>
                 Measure(pc'[s], n_initial'[s], player_sum'[s], dealer_sum'[s]) < MeasureOf(s)
            /\ player_sum'[s] # player_sum[s] /\ pc[s] # "deal" =>
                 player_sum'[s] >= player_sum[s] + 2
            /\ dealer_sum'[s] # dealer_sum[s] /\ pc[s] # "deal" =>
                 dealer_sum'[s] >= dealer_sum[s] + 2]_vars
    /\ \A s \in Sessions :
         (pc[s] = "send_initial") ~> (pc[s] \in InStats \cup {"except"})
C20_Witness ==
    \E s \in DOMAIN pc :
        /\ RoundCompleted(s)
        /\ Len(sent[s]) = 7
        /\ player_sum[s] \in (PlayerTwo(s) + 2)..21
        /\ dealer_sum[s] >= DealerTwo(s) + 2

====
